---------------------------- MODULE Spec2Model ----------------------------
(* State-machine model of src/src/App.jsx: the currency catalog loader,   *)
(* the convert request lifecycle (onConvert), swap, and the history log    *)
(* kept in React state and mirrored to localStorage by useLocalStorage.    *)
(*                                                                         *)
(* Every event handler runs to completion on the single JavaScript thread, *)
(* so a handler is one action.  The two awaits (catalog fetch, convert     *)
(* fetch) split their async functions in two actions each.  The passive    *)
(* effect of useLocalStorage runs after the commit that changed `history`; *)
(* React flushes it before it handles the next event or update, so only a  *)
(* page reload can come between a commit and its effect.                   *)
EXTENDS Integers, Sequences, FiniteSets, TLC

VARIABLES
    currencies,         \* useState({}) line 23: set of [code, name]
    from,               \* line 24
    to,                 \* line 25
    amount,             \* line 26: the amount text
    result,             \* line 27
    rate,               \* line 28
    loading,            \* line 29
    loadingCurrencies,  \* line 30
    history,            \* line 32: the value held by useLocalStorage
    storage,            \* localStorage slot 'cc_history_v1'
    storageOk,          \* whether localStorage can be accessed (else it throws)
    persistPending,     \* the effect of lines 16-18 is scheduled, not yet run
    cancelled,          \* line 40: closure flag of the catalog effect
    catalogFetch,       \* position of fetchCurrencies: "none" (never called),
                        \* "inflight" (at its await) or "settled"
    inflight,           \* convert requests awaiting their response (line 65)
    view,               \* "mounted" | "unmounted" | "crashed" (render threw)
    nextId,             \* number of ids drawn from crypto.randomUUID() so far
    notice,             \* alert() of line 74 was raised by the last handler
    cleared,            \* phase "no" | "pending" | "persisted": Clear has run
                        \* with no request issued since, and its effect has
                        \* run; mark: the ids drawn when it ran
    lastOp              \* the handler that ran last

vars == <<currencies, from, to, amount, result, rate, loading,
          loadingCurrencies, history, storage, storageOk, persistPending,
          cancelled, catalogFetch, inflight, view, nextId, notice, cleared,
          lastOp>>

---------------------------------------------------------------------------
(* JavaScript values *)

Null == [k |-> "null", n |-> 0]

Undef == [k |-> "undef", n |-> 0]

NaN == [k |-> "nan", n |-> 0]

Infinity == [k |-> "inf", n |-> 0]

Num(i) == [k |-> "num", n |-> i]

\* Number(text), line 62: whitespace and the empty string convert to 0
Number(t) ==
    CASE t = ""         -> Num(0)
      [] t = " "        -> Num(0)
      [] t = "0"        -> Num(0)
      [] t = "1"        -> Num(1)
      [] t = "2"        -> Num(2)
      [] t = "-1"       -> Num(0 - 1)
      [] t = "Infinity" -> Infinity
      [] OTHER          -> NaN

\* isNaN(x), line 62
IsNaN(x) == x.k \in {"nan", "undef"}

\* a finite number greater than zero
IsPositiveFinite(x) == x.k = "num" /\ x.n > 0

---------------------------------------------------------------------------
(* Bounds and input sets *)

\* history entries created in one behaviour of Spec
MaxEntries == 2

\* history entries created in one behaviour of SpecAmounts
MaxAmountEntries == 2

\* history entries created in one behaviour of SpecLong
MaxLongEntries == 52

\* .slice(0, 50), line 71
HistoryCap == 50

Codes == {"USD", "PKR"}

\* amount texts of Spec: empty, unparseable, and one that is accepted
AmountTexts == {"", "abc", "1"}

\* amount texts of SpecAmounts: also whitespace, zero, negative, infinite
WideAmountTexts == {"", " ", "abc", "0", "-1", "Infinity", "1", "2"}

FetchedCatalog ==
    {[code |-> "USD", name |-> "US Dollar"],
     [code |-> "PKR", name |-> "Pakistani Rupee"]}

EmptyCatalog == {}

\* resp.data of GET /api/convert: complete, and with result or rate missing
FullPayload == [result |-> Num(2790), rate |-> Num(279), fetchedAt |-> Num(1)]

NoRatePayload == [result |-> Num(2790), rate |-> Undef, fetchedAt |-> Num(1)]

NoResultPayload == [result |-> Undef, rate |-> Num(279), fetchedAt |-> Num(1)]

\* axios rejects on a network error and on a non-2xx status
Failure == [ok |-> FALSE, data |-> FullPayload]

Success(p) == [ok |-> TRUE, data |-> p]

MalformedResponses == {Success(NoRatePayload), Success(NoResultPayload)}

Responses == {Failure, Success(FullPayload)} \cup MalformedResponses

LongResponses == {Failure, Success(FullPayload)}

---------------------------------------------------------------------------
(* useLocalStorage, lines 7-20 *)

EmptyHistory == [k |-> "arr", v |-> <<>>]

AbsentSlot == [k |-> "absent", v |-> <<>>]

GarbageSlot == [k |-> "garbage", v |-> <<>>]

NullSlot == [k |-> "null", v |-> <<>>]

\* JSON.stringify then JSON.parse of one field: NaN and Infinity are written
\* as null; an undefined field is left out and reads back undefined
JsonValue(x) == IF x.k \in {"nan", "inf"} THEN Null ELSE x

JsonEntry(e) ==
    [e EXCEPT !.amount = JsonValue(@), !.result = JsonValue(@),
              !.rate = JsonValue(@), !.at = JsonValue(@)]

\* JSON.stringify(value), line 17
Stringify(h) ==
    IF h.k = "arr"
    THEN [k |-> "arr", v |-> [i \in 1..Len(h.v) |-> JsonEntry(h.v[i])]]
    ELSE NullSlot

\* the useState initializer, lines 8-15
Load(slot, ok) ==
    IF ~ok THEN EmptyHistory                         \* getItem throws
    ELSE IF slot.k = "absent" THEN EmptyHistory      \* item is null
    ELSE IF slot.k = "garbage" THEN EmptyHistory     \* JSON.parse throws
    ELSE [k |-> slot.k, v |-> slot.v]

\* window.localStorage.setItem inside try/catch, line 17
SetItem(slot, h, ok) == IF ok THEN Stringify(h) ELSE slot

---------------------------------------------------------------------------
(* Rendering, lines 125-158 *)

\* x.toLocaleString(...) throws a TypeError on null and undefined
HasNoMethods(x) == x.k \in {"null", "undef"}

\* the result panel (line 131) and the history panel (lines 143, 151)
RenderThrows(res, rt, h) ==
    \/ h.k # "arr"
    \/ rt # Null /\ res # Null /\ HasNoMethods(res)
    \/ \E i \in 1..Len(h.v) : HasNoMethods(h.v[i].result)

\* a swap button that stays enabled while a request is outstanding
SwapEnabledNoLoading == ~loadingCurrencies

\* the swap button is disabled={loading || loadingCurrencies}, line 105
SwapEnabled == ~loading /\ ~loadingCurrencies

\* a submit button that stays enabled while a request is outstanding
SubmitEnabledNoLoading == ~loadingCurrencies

\* a submit button that is enabled before the catalog has arrived
SubmitEnabledNoCatalog == ~loading

\* the submit button is disabled={loading || loadingCurrencies}, line 118;
\* a form whose submit button is disabled is not submitted by Enter either
SubmitEnabled == ~loading /\ ~loadingCurrencies

\* Object.keys of the catalog: the options of both selectors, lines 98-113
CatalogCodes == {c.code : c \in currencies}

Interactive == view = "mounted" /\ ~persistPending

---------------------------------------------------------------------------
(* Mounting the App: useState initializers, first render, mount effects *)

InitSlots == {AbsentSlot, GarbageSlot, NullSlot}

NotCleared == [phase |-> "no", mark |-> 0]

\* the view after the first render of a page load that finds `slot`
MountView(slot, ok) ==
    IF RenderThrows(Null, Null, Load(slot, ok)) THEN "crashed" ELSE "mounted"

\* the slot after the mount effect of lines 16-18 (not run when render threw)
MountStorage(slot, ok) ==
    IF MountView(slot, ok) = "crashed" THEN slot
    ELSE SetItem(slot, Load(slot, ok), ok)

\* a slot that cannot be read has no content the program can tell apart
InitWith(slots, oks) ==
    \E slot \in slots, ok \in oks :
        /\ (ok \/ slot = AbsentSlot)
        /\ currencies = EmptyCatalog
        /\ from = "USD"
        /\ to = "PKR"
        /\ amount = "1"
        /\ result = Null
        /\ rate = Null
        /\ loading = FALSE
        /\ loadingCurrencies = TRUE
        /\ history = Load(slot, ok)
        /\ storage = MountStorage(slot, ok)
        /\ storageOk = ok
        /\ persistPending = FALSE
        /\ cancelled = (MountView(slot, ok) = "crashed")
        /\ catalogFetch = IF MountView(slot, ok) = "crashed" THEN "none" ELSE "inflight"
        /\ inflight = <<>>
        /\ view = MountView(slot, ok)
        /\ nextId = 0
        /\ notice = FALSE
        /\ cleared = NotCleared
        /\ lastOp = "mount"

Init == InitWith(InitSlots, BOOLEAN)

\* a page reload: the running instance and its outstanding requests are gone,
\* a new instance mounts from the slot
Restart ==
    /\ UNCHANGED cleared
    /\ currencies' = EmptyCatalog
    /\ from' = "USD"
    /\ to' = "PKR"
    /\ amount' = "1"
    /\ result' = Null
    /\ rate' = Null
    /\ loading' = FALSE
    /\ loadingCurrencies' = TRUE
    /\ history' = Load(storage, storageOk)
    /\ storage' = MountStorage(storage, storageOk)
    /\ persistPending' = FALSE
    /\ cancelled' = (MountView(storage, storageOk) = "crashed")
    /\ catalogFetch' = IF MountView(storage, storageOk) = "crashed" THEN "none" ELSE "inflight"
    /\ inflight' = <<>>
    /\ view' = MountView(storage, storageOk)
    /\ notice' = FALSE
    /\ lastOp' = "mount"
    /\ UNCHANGED <<storageOk, nextId>>

\* the effect of lines 16-18 after a commit that changed `history`
PersistEffect ==
    /\ cleared' = IF cleared.phase = "pending"
                  THEN [cleared EXCEPT !.phase = "persisted"] ELSE cleared
    /\ view = "mounted"
    /\ persistPending
    /\ storage' = SetItem(storage, history, storageOk)
    /\ persistPending' = FALSE
    /\ UNCHANGED <<currencies, from, to, amount, result, rate, loading,
                   loadingCurrencies, history, storageOk, cancelled,
                   catalogFetch, inflight, view, nextId, notice, lastOp>>

\* the cleanup of line 53 when the App is unmounted
Teardown ==
    /\ UNCHANGED cleared
    /\ Interactive
    /\ view' = "unmounted"
    /\ cancelled' = TRUE
    /\ notice' = FALSE
    /\ lastOp' = "teardown"
    /\ UNCHANGED <<currencies, from, to, amount, result, rate, loading,
                   loadingCurrencies, history, storage, storageOk,
                   persistPending, catalogFetch, inflight, nextId>>

---------------------------------------------------------------------------
(* fetchCurrencies, lines 39-54 *)

CatalogOutcomes == {"ok", "empty", "fail"}

\* a loader that drops the fetched mapping
CatalogOfNothing(outcome) == EmptyCatalog

\* resp.data.data || {}, line 45
CatalogOf(outcome) == IF outcome = "ok" THEN FetchedCatalog ELSE EmptyCatalog

\* a loader that does not look at the flag
NotCancelledIgnored == TRUE

\* if (!cancelled), lines 45 and 49
NotCancelled == ~cancelled

\* the continuation of fetchCurrencies after its await
CatalogSettle(outcome) ==
    /\ UNCHANGED cleared
    /\ catalogFetch = "inflight"
    /\ ~persistPending
    /\ catalogFetch' = "settled"
    /\ currencies' = IF outcome # "fail" /\ NotCancelled
                     THEN CatalogOf(outcome) ELSE currencies
    /\ loadingCurrencies' = IF NotCancelled THEN FALSE ELSE loadingCurrencies
    /\ notice' = FALSE
    /\ lastOp' = "other"
    /\ UNCHANGED <<from, to, amount, result, rate, loading, history, storage,
                   storageOk, persistPending, cancelled, inflight, view, nextId>>

---------------------------------------------------------------------------
(* Form fields, lines 91-113 *)

SetAmount(t) ==
    /\ UNCHANGED cleared
    /\ Interactive
    /\ amount' = t
    /\ notice' = FALSE
    /\ lastOp' = "other"
    /\ UNCHANGED <<currencies, from, to, result, rate, loading,
                   loadingCurrencies, history, storage, storageOk,
                   persistPending, cancelled, catalogFetch, inflight, view,
                   nextId>>

SetFrom(c) ==
    /\ UNCHANGED cleared
    /\ Interactive
    /\ ~loadingCurrencies
    /\ c \in CatalogCodes
    /\ from' = c
    /\ notice' = FALSE
    /\ lastOp' = "other"
    /\ UNCHANGED <<currencies, to, amount, result, rate, loading,
                   loadingCurrencies, history, storage, storageOk,
                   persistPending, cancelled, catalogFetch, inflight, view,
                   nextId>>

SetTo(c) ==
    /\ UNCHANGED cleared
    /\ Interactive
    /\ ~loadingCurrencies
    /\ c \in CatalogCodes
    /\ to' = c
    /\ notice' = FALSE
    /\ lastOp' = "other"
    /\ UNCHANGED <<currencies, from, amount, result, rate, loading,
                   loadingCurrencies, history, storage, storageOk,
                   persistPending, cancelled, catalogFetch, inflight, view,
                   nextId>>

\* onSwap, lines 56-58
OnSwap ==
    /\ UNCHANGED cleared
    /\ Interactive
    /\ SwapEnabled
    /\ from' = to
    /\ to' = from
    /\ result' = Null
    /\ rate' = Null
    /\ notice' = FALSE
    /\ lastOp' = "swap"
    /\ UNCHANGED <<currencies, amount, loading, loadingCurrencies, history,
                   storage, storageOk, persistPending, cancelled,
                   catalogFetch, inflight, view, nextId>>

\* the Clear button, line 141
Clear ==
    /\ cleared' = [phase |-> "pending", mark |-> nextId]
    /\ Interactive
    /\ history' = EmptyHistory
    /\ persistPending' = TRUE
    /\ notice' = FALSE
    /\ lastOp' = "other"
    /\ UNCHANGED <<currencies, from, to, amount, result, rate, loading,
                   loadingCurrencies, storage, storageOk, cancelled,
                   catalogFetch, inflight, view, nextId>>

---------------------------------------------------------------------------
(* onConvert, lines 60-78 *)

\* a guard that tests only for the empty text
AmountAcceptedNonEmpty(t) == t # ""

\* the guard of line 62, negated: the amount text passes
AmountAccepted(t) == ~(t = "" \/ IsNaN(Number(t)))

\* the query of line 66
ConvertParams(f, t, a) == [from |-> f, to |-> t, amount |-> Number(a)]

\* what the closure of this render holds: onConvert reads these after its await
ClosureEnv(f, t, a, h) == [from |-> f, to |-> t, amount |-> a, history |-> h]

\* a request that a later submission has followed is superseded
Supersede(reqs) == [i \in 1..Len(reqs) |-> [reqs[i] EXCEPT !.superseded = TRUE]]

\* a submission that leaves the previous result on display
ResultOnSubmitStale == result

\* setResult(null); setRate(null), line 63
ResultOnSubmit == Null

\* a submission that leaves the previous rate in place
RateOnSubmitStale == rate

\* setRate(null), line 63
RateOnSubmit == Null

\* the handler up to its await: lines 61-67
OnConvert ==
    /\ cleared' = IF AmountAccepted(amount) THEN NotCleared ELSE cleared
    /\ Interactive
    /\ SubmitEnabled
    /\ notice' = FALSE
    /\ IF AmountAccepted(amount)
       THEN /\ loading' = TRUE
            /\ result' = ResultOnSubmit
            /\ rate' = RateOnSubmit
            /\ inflight' = Append(Supersede(inflight),
                                  [params |-> ConvertParams(from, to, amount),
                                   env |-> ClosureEnv(from, to, amount, history.v),
                                   superseded |-> FALSE])
            /\ lastOp' = "submit"
       ELSE /\ UNCHANGED <<loading, result, rate, inflight>>
            /\ lastOp' = "reject"
    /\ UNCHANGED <<currencies, from, to, amount, loadingCurrencies, history,
                   storage, storageOk, persistPending, cancelled,
                   catalogFetch, view, nextId>>

\* a record built from the fields as they are when the response arrives
NewRecordLive(r, data, id) ==
    [id |-> id, from |-> from, to |-> to, amount |-> Number(amount),
     result |-> data.result, rate |-> data.rate, at |-> data.fetchedAt]

\* line 70: the record is built from the closure and the response
NewRecord(r, data, id) ==
    [id |-> id, from |-> r.env.from, to |-> r.env.to,
     amount |-> Number(r.env.amount), result |-> data.result,
     rate |-> data.rate, at |-> data.fetchedAt]

\* a slice that keeps one entry too many
SliceOneMore(s) ==
    SubSeq(s, 1, IF Len(s) < HistoryCap + 1 THEN Len(s) ELSE HistoryCap + 1)

\* .slice(0, 50), line 71
Slice(s) == SubSeq(s, 1, IF Len(s) < HistoryCap THEN Len(s) ELSE HistoryCap)

\* a record put behind the log instead of in front of it
PrependedAtEnd(rec, r) == Slice(r.env.history \o <<rec>>)

\* [record, ...history].slice(0, 50), line 71: `history` is the closure's
Prepended(rec, r) == Slice(<<rec>> \o r.env.history)

Without(reqs, i) == SubSeq(reqs, 1, i - 1) \o SubSeq(reqs, i + 1, Len(reqs))

\* a handler that leaves the flag as it finds it
LoadingOnSettleKept == loading

\* finally { setLoading(false) }, line 76
LoadingOnSettle == FALSE

\* the handler after its await, for the i-th outstanding request: lines 68-77
ConvertSettle(i, resp) ==
    /\ UNCHANGED cleared
    /\ i \in 1..Len(inflight)
    /\ ~persistPending
    /\ inflight' = Without(inflight, i)
    /\ LET r == inflight[i]
           rec == NewRecord(r, resp.data, nextId + 1)
           h == [k |-> "arr", v |-> Prepended(rec, r)]
       IN  IF view # "mounted"
           THEN \* every setState is a no-op on an unmounted component
                /\ notice' = ~resp.ok
                /\ lastOp' = "late"
                /\ nextId' = IF resp.ok THEN nextId + 1 ELSE nextId
                /\ UNCHANGED <<result, rate, history, loading, persistPending,
                               view, cancelled>>
           ELSE IF ~resp.ok
           THEN \* catch, lines 72-74, then finally
                /\ notice' = TRUE
                /\ loading' = LoadingOnSettle
                /\ lastOp' = "fail"
                /\ UNCHANGED <<result, rate, history, persistPending, view,
                               cancelled, nextId>>
           ELSE IF RenderThrows(resp.data.result, resp.data.rate, h)
           THEN \* the render of the new state throws and React unmounts the
                \* tree; a synchronous render throws inside the try block and
                \* reaches the catch, a batched one does not
                /\ view' = "crashed"
                /\ cancelled' = TRUE
                /\ notice' \in BOOLEAN
                /\ lastOp' = "crash"
                /\ nextId' = nextId + 1
                /\ UNCHANGED <<result, rate, history, loading, persistPending>>
           ELSE /\ result' = resp.data.result
                /\ rate' = resp.data.rate
                /\ history' = h
                /\ persistPending' = TRUE
                /\ loading' = LoadingOnSettle
                /\ notice' = FALSE
                /\ lastOp' = "success"
                /\ nextId' = nextId + 1
                /\ UNCHANGED <<view, cancelled>>
    /\ UNCHANGED <<currencies, from, to, amount, loadingCurrencies, storage,
                   storageOk, catalogFetch>>

---------------------------------------------------------------------------
(* Specifications *)

Next ==
    \/ Restart
    \/ PersistEffect
    \/ \E o \in CatalogOutcomes : CatalogSettle(o)
    \/ \E t \in AmountTexts : SetAmount(t)
    \/ \E c \in Codes : SetFrom(c)
    \/ \E c \in Codes : SetTo(c)
    \/ OnSwap
    \/ Clear
    \/ (nextId + Len(inflight) < MaxEntries /\ OnConvert)
    \/ \E i \in 1..Len(inflight), resp \in Responses : ConvertSettle(i, resp)

Spec == Init /\ [][Next]_vars

\* long runs of conversions with one payload and no field edits, far enough
\* for the log to overflow HistoryCap; a reload that overtakes the pending
\* effect is explored while the first MaxEntries entries are created
InitLong == InitWith({AbsentSlot}, {TRUE})

NextLong ==
    \/ ((~persistPending \/ nextId <= MaxEntries) /\ Restart)
    \/ PersistEffect
    \/ CatalogSettle("ok")
    \/ Clear
    \/ (nextId + Len(inflight) < MaxLongEntries /\ OnConvert)
    \/ \E i \in 1..Len(inflight), resp \in LongResponses : ConvertSettle(i, resp)

SpecLong == InitLong /\ [][NextLong]_vars

\* submissions over the wide range of amount texts
NextAmounts ==
    \/ PersistEffect
    \/ CatalogSettle("ok")
    \/ \E t \in WideAmountTexts : SetAmount(t)
    \/ (nextId + Len(inflight) < MaxAmountEntries /\ OnConvert)
    \/ \E i \in 1..Len(inflight), resp \in LongResponses : ConvertSettle(i, resp)

SpecAmounts == InitLong /\ [][NextAmounts]_vars

\* conversions one after another from an empty log: no clear, no reload
NextRun ==
    \/ PersistEffect
    \/ CatalogSettle("ok")
    \/ (nextId + Len(inflight) < MaxLongEntries /\ OnConvert)
    \/ \E i \in 1..Len(inflight), resp \in LongResponses : ConvertSettle(i, resp)

SpecRun == InitLong /\ [][NextRun]_vars

\* the general specification with the unmount of the App
NextView == Next \/ Teardown

SpecView == Init /\ [][NextView]_vars

\* every response arrives, however often the persist effect of another
\* update stands in front of it, and React runs every effect it scheduled
SettleSome ==
    \E i \in 1..Len(inflight), resp \in Responses : ConvertSettle(i, resp)

Fairness == SF_vars(SettleSome) /\ WF_vars(PersistEffect)

SpecLive == Init /\ [][Next]_vars /\ Fairness

---------------------------------------------------------------------------
(* Claims *)

\* C1: last-issued-request wins.  Only the response to the most recently
\* issued convert request updates result, rate or the history log: when a
\* response changes any of them, its request is the newest outstanding one
\* and no later submission has followed it.  The disabled submit button
\* keeps a second request from being issued while one is outstanding.
C1_LastIssuedWins ==
    [][\A i \in 1..Len(inflight), resp \in Responses :
          (ConvertSettle(i, resp)
             /\ (result' # result \/ rate' # rate \/ history' # history))
          => (i = Len(inflight) /\ ~inflight[i].superseded)]_vars

\* the second request issued has been answered after the first was, and its
\* result is the one on display and at the front of the log
C1_Witness ==
    /\ lastOp = "success"
    /\ nextId = 2
    /\ Len(history.v) = 2
    /\ result = history.v[1].result
    /\ history.v[1].id = 2

\* C2: when a successful response is applied, the log becomes the new entry
\* followed by the log as it stood immediately before the response, cut to
\* HistoryCap entries, also when the log was cleared after the submission.
C2_AppendsToCurrentLog ==
    [][\A i \in 1..Len(inflight), resp \in Responses :
          (ConvertSettle(i, resp) /\ lastOp' = "success")
          => history'.v = Slice(<<history'.v[1]>> \o history.v)]_vars

\* C3: the in-memory log and the persisted sequence hold at most HistoryCap
\* entries in every reachable state.
C3_LogBounded ==
    /\ Len(history.v) <= HistoryCap
    /\ Len(storage.v) <= HistoryCap

\* more conversions than HistoryCap have succeeded and a full log is
\* both in memory and in the slot
C3_Witness ==
    /\ nextId > HistoryCap
    /\ Len(history.v) = HistoryCap
    /\ Len(storage.v) = HistoryCap
    /\ ~persistPending

\* C4: after N successful conversions made one after another from an empty
\* log, with no clear, the log is the last min(N, HistoryCap) conversions,
\* newest first: entry i is conversion N - i + 1.
C4_LastFiftyNewestFirst ==
    /\ Len(history.v) = (IF nextId < HistoryCap THEN nextId ELSE HistoryCap)
    /\ \A i \in 1..Len(history.v) : history.v[i].id = nextId - i + 1

\* two conversions more than HistoryCap: the two oldest are gone
C4_Witness ==
    /\ nextId = HistoryCap + 2
    /\ Len(history.v) = HistoryCap
    /\ history.v[1].id = HistoryCap + 2
    /\ history.v[HistoryCap].id = 3

\* C5: the entry a successful conversion puts at the front of the log has
\* the from, to and amount sent in its request and the result, rate and
\* fetchedAt of its response, whatever the fields hold by then.
C5_EntryMatchesRequestAndResponse ==
    [][\A i \in 1..Len(inflight), resp \in Responses :
          (ConvertSettle(i, resp) /\ lastOp' = "success")
          => /\ history'.v[1].from = inflight[i].params.from
             /\ history'.v[1].to = inflight[i].params.to
             /\ history'.v[1].amount = inflight[i].params.amount
             /\ history'.v[1].result = resp.data.result
             /\ history'.v[1].rate = resp.data.rate
             /\ history'.v[1].at = resp.data.fetchedAt]_vars

\* an entry was just added while from, to and amount had all been edited
\* since its request was sent
C5_Witness ==
    /\ lastOp = "success"
    /\ history.v[1].from # from
    /\ history.v[1].to # to
    /\ history.v[1].amount # Number(amount)
    /\ amount = "abc"

\* C6: a 2xx response whose payload lacks result or rate is handled like a
\* failure: result and rate stay null, the log is unchanged and the failure
\* notice is raised.
C6_MalformedIsFailure ==
    [][\A i \in 1..Len(inflight), resp \in MalformedResponses :
          ConvertSettle(i, resp)
          => /\ result' = Null
             /\ rate' = Null
             /\ history' = history
             /\ notice']_vars

\* C7: when a convert request fails, then once the failure is handled result
\* and rate are null, the log and the persisted sequence are what they were
\* before the response, and the failure notice has been raised.
C7_FailureLeavesNoResult ==
    [][\A i \in 1..Len(inflight) :
          ConvertSettle(i, Failure)
          => /\ result' = Null
             /\ rate' = Null
             /\ history' = history
             /\ storage' = storage
             /\ notice']_vars

\* a request has just failed with an earlier conversion in the log
C7_Witness ==
    /\ lastOp = "fail"
    /\ notice
    /\ result = Null
    /\ rate = Null
    /\ Len(history.v) > 0
    /\ storage = Stringify(history)

\* C8: a submission whose amount text is empty or does not parse to a number
\* issues no request and leaves loading, result, rate, the log and the
\* persisted sequence unchanged.
C8_RejectedSubmissionIsNoOp ==
    [][(OnConvert /\ (amount = "" \/ Number(amount) = NaN))
          => /\ inflight' = inflight
             /\ UNCHANGED <<loading, result, rate, history, storage>>]_vars

\* an unparseable amount has just been submitted while a result is on display
C8_Witness ==
    /\ lastOp = "reject"
    /\ amount = "abc"
    /\ result # Null
    /\ inflight = <<>>
    /\ ~loading

\* C9: every convert request issued carries a positive finite amount.
C9_AmountPositiveFinite ==
    \A i \in 1..Len(inflight) : IsPositiveFinite(inflight[i].params.amount)

\* C10: after clear() the empty state is persisted: a reload that takes
\* place after clear() and before any later conversion is submitted observes
\* an empty log.  Stated in the form most favourable to the code: the reload
\* comes after the effect of the clear has written the slot, and a request
\* that was outstanding when the log was cleared may have added its own
\* entry; every entry that clear() removed must still be gone.
C10_ReloadAfterClearSeesEmptyLog ==
    (cleared.phase = "persisted" /\ lastOp = "mount")
    => \A i \in 1..Len(history.v) : history.v[i].id > cleared.mark

---------------------------------------------------------------------------
\* C11: an append is durable before it returns: in every state in which the
\* entry of a successful conversion is visible in the in-memory log, the
\* persisted slot already holds that same sequence (stated for a store that
\* accepts writes, a failed write being best-effort).
C11_AppendDurableBeforeReturn ==
    (storageOk /\ view = "mounted" /\ lastOp = "success")
        => storage = Stringify(history)

---------------------------------------------------------------------------
\* C12: the load at startup yields a sequence for every content of the slot
\* and never raises: after every mount the in-memory log is a sequence and
\* the view is up.
C12_LoadYieldsSequence ==
    lastOp = "mount" => (history.k = "arr" /\ view = "mounted")

---------------------------------------------------------------------------
\* C13: every issued convert request is followed by loading becoming false
\* in the view that issued it, given that the request settles; and loading
\* is cleared no earlier than the writes of result, rate and history for
\* that request: it is still true when the response is handled and is false
\* once the response has been handled.
C13_LoadingEventuallyCleared ==
    /\ (inflight # <<>>) ~> (~loading \/ view # "mounted")
    /\ [][\A i \in 1..Len(inflight), resp \in Responses :
            (ConvertSettle(i, resp) /\ view' = "mounted")
            => (loading /\ ~loading')]_vars

C13_Witness ==
    /\ lastOp \in {"success", "fail"}
    /\ nextId = 1
    /\ inflight = <<>>
    /\ ~loading
    /\ view = "mounted"

---------------------------------------------------------------------------
\* C14: swap exchanges from and to, sets result and rate to null and leaves
\* amount, loading, the catalog and the history unchanged; no request for
\* the pre-swap pair is outstanding when the swap is made, and result turns
\* non-null only when a response is handled, so after a swap result stays
\* null until a request submitted after the swap succeeds.
C14_SwapClearsAndNothingStaleFollows ==
    [][/\ OnSwap => /\ from' = to /\ to' = from
                    /\ result' = Null /\ rate' = Null
                    /\ UNCHANGED <<amount, loading, currencies, history>>
                    /\ inflight = <<>>
       /\ (result = Null /\ result' # Null)
              => \E i \in 1..Len(inflight), resp \in Responses :
                     /\ ConvertSettle(i, resp)
                     /\ resp.ok
                     /\ result' = resp.data.result]_vars

C14_Witness ==
    /\ lastOp = "swap"
    /\ from = "PKR" /\ to = "USD"
    /\ result = Null /\ rate = Null
    /\ Len(history.v) = 1 /\ history.v[1].from = "USD"
    /\ history.v[1].result # Null

---------------------------------------------------------------------------
\* C15: once the view that owns the catalog loader has been torn down, a
\* catalog fetch that settles afterwards, with success or with failure,
\* changes neither the catalog nor the loading flag of the catalog.
C15_LateCatalogResponseDiscarded ==
    [][\A o \in CatalogOutcomes :
          (CatalogSettle(o) /\ view # "mounted")
          => UNCHANGED <<currencies, loadingCurrencies>>]_vars

C15_Witness ==
    /\ view = "unmounted"
    /\ catalogFetch = "settled"
    /\ loadingCurrencies
    /\ currencies = EmptyCatalog

---------------------------------------------------------------------------
\* C16: the catalog loader issues one catalog fetch per view lifetime, at
\* the mount, and never retries; in a mounted view the loading flag of the
\* catalog is true from initialization until that fetch settles and false
\* afterwards on both outcomes; the catalog is empty until then, stays empty
\* on failure and is exactly the fetched mapping on success.
C16_OneCatalogFetchPerView ==
    /\ [](view = "mounted"
            => /\ catalogFetch \in {"inflight", "settled"}
               /\ loadingCurrencies <=> (catalogFetch = "inflight")
               /\ loadingCurrencies => currencies = EmptyCatalog)
    /\ [][/\ (catalogFetch # "inflight" /\ catalogFetch' = "inflight")
                => lastOp' = "mount"
          /\ \A o \in CatalogOutcomes :
                (CatalogSettle(o) /\ view = "mounted")
                => /\ ~loadingCurrencies'
                   /\ o = "ok" => currencies' = FetchedCatalog
                   /\ o # "ok" => currencies' = EmptyCatalog]_vars

C16_Witness ==
    /\ view = "mounted"
    /\ catalogFetch = "settled"
    /\ ~loadingCurrencies
    /\ currencies = FetchedCatalog
    /\ lastOp = "other"
    /\ nextId = 0 /\ inflight = <<>>

---------------------------------------------------------------------------
\* C17: while loading is true, result and rate are both null: starting a
\* request clears them in the step that sets loading, and nothing sets them
\* again before loading is cleared.
C17_NoResultWhileLoading ==
    loading => (result = Null /\ rate = Null)

C17_Witness ==
    /\ loading
    /\ lastOp = "submit"
    /\ result = Null /\ rate = Null
    /\ Len(history.v) = 1
    /\ history.v[1].result # Null
    /\ history.v[1].rate # Null

---------------------------------------------------------------------------
\* C18: no convert request is issued while the catalog is still loading:
\* every step that issues a convert request starts in a state where
\* loadingCurrencies is false.
C18_NoRequestWhileCatalogLoading ==
    [][Len(inflight') > Len(inflight) => ~loadingCurrencies]_vars

C18_Witness ==
    /\ lastOp = "submit"
    /\ Len(inflight) = 1
    /\ catalogFetch = "settled"
    /\ ~loadingCurrencies
    /\ currencies = EmptyCatalog

---------------------------------------------------------------------------
\* C19: at most one convert request is outstanding at any time: a request is
\* issued only in a state where loading is false, and in the view that
\* issued it loading stays true for as long as the request is outstanding.
C19_AtMostOneOutstanding ==
    /\ [](/\ Len(inflight) <= 1
          /\ (inflight # <<>> /\ view = "mounted") => loading)
    /\ [][Len(inflight') > Len(inflight) => ~loading]_vars

C19_Witness ==
    /\ Len(inflight) = 1
    /\ loading
    /\ nextId = 1
    /\ lastOp = "other"
    /\ amount # inflight[1].env.amount

---------------------------------------------------------------------------
\* C20: whenever result and rate are non-null, the current from, to and
\* amount are those of the request that produced them: any change of from,
\* to or amount after a successful conversion, by swap or by direct edit,
\* leaves no result displayed.
C20_EditLeavesNoResult ==
    [][(/\ result # Null /\ rate # Null
        /\ (from' # from \/ to' # to \/ amount' # amount))
       => (result' = Null /\ rate' = Null)]_vars

===========================================================================
